---- MODULE Spec2Model ----
(***************************************************************************)
(* Model of absl/flags/internal/registry.cc: the process-wide flag         *)
(* registry (FlagRegistry), the registration conflict policy               *)
(* (RegisterFlag), retirement (Retire / RetiredFlagObj), the lookup and    *)
(* enumeration entry points, and FlagSaver / FlagSaverImpl.                *)
(*                                                                         *)
(* Threads execute the entry points step by step; a step is one of: the    *)
(* call, the acquisition of the registry lock, the code executed under the *)
(* lock, one iteration of a loop, and the return (which releases the lock  *)
(* where the function holds a FlagRegistryLock).                           *)
(***************************************************************************)
EXTENDS Integers, Sequences, FiniteSets, TLC

\* ------------------------------------------------------------------ bounds
NumThreads == 2      \* threads calling into the registry
MaxFlags == 2        \* CommandLineFlag objects ever constructed
MaxName == 1         \* names are 0..MaxName; 0 is the empty string
MaxValue == 1        \* a live flag's value is one of 0..MaxValue
NumSavers == 2       \* FlagSaver objects ever constructed

\* --------------------------------------------------------------- constants
nullptr == 0         \* the null CommandLineFlag* / FlagSaverImpl*
NoThread == 0        \* lock_ is free
EmptyName == 0       \* the empty string_view, least in the map's key order

Threads == 1..NumThreads
MainThread == CHOOSE t \in Threads : \A u \in Threads : t <= u
Names == 0..MaxName
Values == 0..MaxValue
Savers == 1..NumSavers
Filenames == {"a.cc", "b.cc"}
Ops == {"bool", "int"}          \* FlagOpFn type tokens (op_)
RETIRED == "RETIRED"            \* RetiredFlagObj's filename

VARIABLES
    objs,              \* the CommandLineFlag objects constructed so far (by id)
    flags_,            \* FlagRegistry::flags_: name -> flag id, nullptr if no entry
    lock_,             \* FlagRegistry::lock_: the holding thread, or NoThread
    exited,            \* std::exit(1) was called
    fatal,             \* the message of the fatal ReportUsageError, "" if none
    impl_,             \* FlagSaver::impl_ per saver: "unborn", "impl", "null", "gone"
    backup_registry_,  \* FlagSaverImpl::backup_registry_ per saver
    ignored,           \* history: Ignore() was called on the saver
    restores,          \* history: calls of RestoreToRegistry per saver
    atCapture,         \* history: flags_ and the values when the capture took the lock,
                       \* kept until the saver's destructor has returned
    pc,                \* per thread: where it is
    op,                \* per thread: the entry point it is executing
    flag,              \* per thread: the CommandLineFlag* argument / local
    name,              \* per thread: the name argument
    saver,             \* per thread: the FlagSaver it operates on (0: none)
    outer,             \* per thread: the frame of the walk whose visitor is running, <<>> if none
    i,                 \* per thread: ForEachFlagUnlocked's iterator (a name; MaxName+1: end)
    visited,           \* per thread: the flags the visitor was called with, in order
    pos,               \* per thread: RestoreToRegistry's place in backup_registry_
    rewound,           \* per thread, history: a Restore of this call changed a value
    ret,               \* per thread: the returned CommandLineFlag*
    ok,                \* per thread: the returned bool
    type_is_bool,      \* per thread: IsRetiredFlag's output, "untouched" until written
    warns              \* per thread: non-fatal ReportUsageError calls of this call

regVars == <<flags_, lock_>>
procVars == <<exited, fatal>>
saverVars == <<impl_, backup_registry_, ignored, restores, atCapture>>
argVars == <<op, flag, name, saver, outer>>
outVars == <<ret, ok, type_is_bool, warns>>
iterVars == <<i, visited, pos, rewound>>
vars == <<objs, regVars, procVars, saverVars, pc, argVars, iterVars, outVars>>

\* ------------------------------------------------------- CommandLineFlag
\* A flag object: identity, the retired bit, the current value (cur_) and the
\* number of Destroy() calls it received.
NoValue == -1        \* cur_ of a RetiredFlagObj (nullptr)

NewFlag(n, f, o) ==
    [name |-> n, filename |-> f, op_ |-> o, retired |-> FALSE,
     cur |-> 0, destroyed |-> 0]

RetiredFlagObj(n, o) ==
    [name |-> n, filename |-> RETIRED, op_ |-> o, retired |-> TRUE,
     cur |-> NoValue, destroyed |-> 0]

FlagIds == 1..Len(objs)
IsRetired(id) == objs[id].retired
IsOfTypeBool(id) == objs[id].op_ = "bool"

\* The flags the registry holds.
Registered == {flags_[n] : n \in Names} \ {nullptr}

Init ==
    /\ objs = <<>>
    /\ flags_ = [n \in Names |-> nullptr]
    /\ lock_ = NoThread
    /\ exited = FALSE
    /\ fatal = ""
    /\ impl_ = [s \in Savers |-> "unborn"]
    /\ backup_registry_ = [s \in Savers |-> <<>>]
    /\ ignored = [s \in Savers |-> FALSE]
    /\ restores = [s \in Savers |-> 0]
    /\ atCapture = [s \in Savers |-> <<>>]
    /\ pc = [t \in Threads |-> "idle"]
    /\ op = [t \in Threads |-> ""]
    /\ flag = [t \in Threads |-> nullptr]
    /\ name = [t \in Threads |-> EmptyName]
    /\ saver = [t \in Threads |-> 0]
    /\ outer = [t \in Threads |-> <<>>]
    /\ i = [t \in Threads |-> 0]
    /\ visited = [t \in Threads |-> <<>>]
    /\ pos = [t \in Threads |-> 0]
    /\ rewound = [t \in Threads |-> FALSE]
    /\ ret = [t \in Threads |-> nullptr]
    /\ ok = [t \in Threads |-> FALSE]
    /\ type_is_bool = [t \in Threads |-> "untouched"]
    /\ warns = [t \in Threads |-> 0]

\* ------------------------------------------------------- FlagRegistryLock
\* Faulty variant of Lock, for comparison: the holder may take the lock again.
Lock_Recursive(t) == lock_ \in {NoThread, t} /\ lock_' = t

\* Mutex::Lock(): waits until the lock is free, whoever holds it.
Lock(t) == lock_ = NoThread /\ lock_' = t
Unlock(t) == lock_' = NoThread

\* A thread at `from` moves to `to`.
Goto(t, from, to) == pc[t] = from /\ pc' = [pc EXCEPT ![t] = to]

\* ------------------------------------------------------------ RegisterFlag
\* Faulty variant of Conflict, for comparison: the same definition registered twice is let through.
Conflict_SameDefinitionOk(new, old) ==
    IF new.retired # old.retired THEN "RetiredDefinedNormally"
    ELSE IF new.op_ # old.op_ THEN "DifferingTypes"
    ELSE IF old.retired THEN "Idempotent"
    ELSE IF old.filename # new.filename THEN "DefinedMoreThanOnce"
    ELSE "Idempotent"

\* Faulty variant of Conflict, for comparison: the retired bits are not compared.
Conflict_NoRetiredCheck(new, old) ==
    IF new.op_ # old.op_ THEN "DifferingTypes"
    ELSE IF old.retired THEN "Idempotent"
    ELSE IF old.filename # new.filename THEN "DefinedMoreThanOnce"
    ELSE "SomethingWrong"

\* Faulty variant of Conflict, for comparison: the types are compared before the retired bits.
Conflict_TypesFirst(new, old) ==
    IF new.op_ # old.op_ THEN "DifferingTypes"
    ELSE IF new.retired # old.retired THEN "RetiredDefinedNormally"
    ELSE IF old.retired THEN "Idempotent"
    ELSE IF old.filename # new.filename THEN "DefinedMoreThanOnce"
    ELSE "SomethingWrong"

\* The branch RegisterFlag takes for an incoming flag whose name is taken.
Conflict(new, old) ==
    IF new.retired # old.retired THEN "RetiredDefinedNormally"
    ELSE IF new.op_ # old.op_ THEN "DifferingTypes"
    ELSE IF old.retired THEN "Idempotent"
    ELSE IF old.filename # new.filename THEN "DefinedMoreThanOnce"
    ELSE "SomethingWrong"

\* RegisterCommandLineFlag(flag): the caller constructed the flag object.
RegisterCommandLineFlag(t, n, f, o) ==
    /\ ~exited
    /\ Len(objs) < MaxFlags
    /\ Goto(t, "idle", "RegisterFlag")
    /\ objs' = Append(objs, NewFlag(n, f, o))
    /\ op' = [op EXCEPT ![t] = "RegisterCommandLineFlag"]
    /\ flag' = [flag EXCEPT ![t] = Len(objs) + 1]
    /\ name' = [name EXCEPT ![t] = n]
    /\ UNCHANGED <<outer, regVars, procVars, saverVars, saver, iterVars, outVars>>

\* Retire(name, ops, marshalling_ops): constructs a RetiredFlagObj.
Retire(t, n, o) ==
    /\ ~exited
    /\ Len(objs) < MaxFlags
    /\ Goto(t, "idle", "RegisterFlag")
    /\ objs' = Append(objs, RetiredFlagObj(n, o))
    /\ op' = [op EXCEPT ![t] = "Retire"]
    /\ flag' = [flag EXCEPT ![t] = Len(objs) + 1]
    /\ name' = [name EXCEPT ![t] = n]
    /\ UNCHANGED <<outer, regVars, procVars, saverVars, saver, iterVars, outVars>>

\* Faulty variant of RegisterFlag_Lock, for comparison: RegisterFlag runs without the lock.
RegisterFlag_Lock_NoLock(t) ==
    /\ ~exited
    /\ Goto(t, "RegisterFlag", "RegisterFlag_locked")
    /\ UNCHANGED <<objs, regVars, procVars, saverVars, argVars, iterVars, outVars>>

\* FlagRegistryLock registry_lock(this);
RegisterFlag_Lock(t) ==
    /\ ~exited
    /\ Goto(t, "RegisterFlag", "RegisterFlag_locked")
    /\ Lock(t)
    /\ UNCHANGED <<objs, flags_, procVars, saverVars, argVars, iterVars, outVars>>

\* Faulty variant of RegisterFlag_Insert, for comparison: flags_[name] = flag, whether or not the name is taken.
RegisterFlag_Insert_Overwrites(t) ==
    /\ ~exited
    /\ Goto(t, "RegisterFlag_locked", "RegisterFlag_return")
    /\ flags_' = [flags_ EXCEPT ![objs[flag[t]].name] = flag[t]]
    /\ UNCHANGED <<objs, lock_, procVars, saverVars, argVars, iterVars, outVars>>

\* flags_.insert(...) found no entry: the flag is stored.
RegisterFlag_Insert(t) ==
    /\ ~exited
    /\ Goto(t, "RegisterFlag_locked", "RegisterFlag_return")
    /\ flags_[objs[flag[t]].name] = nullptr
    /\ flags_' = [flags_ EXCEPT ![objs[flag[t]].name] = flag[t]]
    /\ UNCHANGED <<objs, lock_, procVars, saverVars, argVars, iterVars, outVars>>

\* Faulty variant of RegisterFlag_Idempotent, for comparison: the new tombstone replaces the old one.
RegisterFlag_Idempotent_KeepsNew(t) ==
    /\ ~exited
    /\ Goto(t, "RegisterFlag_locked", "RegisterFlag_return")
    /\ flags_[objs[flag[t]].name] # nullptr
    /\ Conflict(objs[flag[t]], objs[flags_[objs[flag[t]].name]]) = "Idempotent"
    /\ objs' = [objs EXCEPT ![flags_[objs[flag[t]].name]].destroyed = @ + 1]
    /\ flags_' = [flags_ EXCEPT ![objs[flag[t]].name] = flag[t]]
    /\ UNCHANGED <<lock_, procVars, saverVars, argVars, iterVars, outVars>>

\* Both retired, same type: flag->Destroy(); return;
RegisterFlag_Idempotent(t) ==
    /\ ~exited
    /\ Goto(t, "RegisterFlag_locked", "RegisterFlag_return")
    /\ flags_[objs[flag[t]].name] # nullptr
    /\ Conflict(objs[flag[t]], objs[flags_[objs[flag[t]].name]]) = "Idempotent"
    /\ objs' = [objs EXCEPT ![flag[t]].destroyed = @ + 1]
    /\ UNCHANGED <<regVars, procVars, saverVars, argVars, iterVars, outVars>>

\* Every other branch: ReportUsageError(..., true); std::exit(1);
RegisterFlag_Fatal(t) ==
    /\ ~exited
    /\ Goto(t, "RegisterFlag_locked", "exit")
    /\ flags_[objs[flag[t]].name] # nullptr
    /\ Conflict(objs[flag[t]], objs[flags_[objs[flag[t]].name]]) # "Idempotent"
    /\ fatal' = Conflict(objs[flag[t]], objs[flags_[objs[flag[t]].name]])
    /\ exited' = TRUE
    /\ UNCHANGED <<objs, regVars, saverVars, argVars, iterVars, outVars>>

\* Faulty variant of RegisterFlag_Return, for comparison: the result of the insert is returned.
RegisterFlag_Return_Inserted(t) ==
    /\ ~exited
    /\ Goto(t, "RegisterFlag_return", "done")
    /\ Unlock(t)
    /\ ok' = [ok EXCEPT ![t] = flags_[name[t]] = flag[t]]
    /\ UNCHANGED <<objs, flags_, procVars, saverVars, argVars, iterVars,
                   ret, type_is_bool, warns>>

\* ~FlagRegistryLock, then `return true` of RegisterCommandLineFlag / Retire.
RegisterFlag_Return(t) ==
    /\ ~exited
    /\ Goto(t, "RegisterFlag_return", "done")
    /\ Unlock(t)
    /\ ok' = [ok EXCEPT ![t] = TRUE]
    /\ UNCHANGED <<objs, flags_, procVars, saverVars, argVars, iterVars,
                   ret, type_is_bool, warns>>

\* ------------------------------------------------- FindCommandLineFlag
\* Faulty variant of FindCommandLineFlag, for comparison: name.empty() is not tested.
FindCommandLineFlag_NoEmptyTest(t, n) ==
    /\ ~exited
    /\ Goto(t, "idle", "FindFlag")
    /\ op' = [op EXCEPT ![t] = "FindCommandLineFlag"]
    /\ name' = [name EXCEPT ![t] = n]
    /\ UNCHANGED <<outer, objs, regVars, procVars, saverVars, flag, saver, iterVars, outVars>>

\* if (name.empty()) return nullptr; -- before the registry is touched.
FindCommandLineFlag(t, n) ==
    /\ ~exited
    /\ pc[t] = "idle"
    /\ pc' = [pc EXCEPT ![t] = IF n = EmptyName THEN "done" ELSE "FindFlag"]
    /\ op' = [op EXCEPT ![t] = "FindCommandLineFlag"]
    /\ name' = [name EXCEPT ![t] = n]
    /\ UNCHANGED <<outer, objs, regVars, procVars, saverVars, flag, saver, iterVars, outVars>>

\* FlagRegistryLock frl(registry);
FindCommandLineFlag_Lock(t) ==
    /\ ~exited
    /\ Goto(t, "FindFlag", "FindFlag_locked")
    /\ Lock(t)
    /\ UNCHANGED <<objs, flags_, procVars, saverVars, argVars, iterVars, outVars>>

\* FindFlagLocked's result: the entry, retired or not.
FindFlagLocked(n) == flags_[n]

\* Faulty variant of FindFlagLockedWarnings, for comparison: every entry found is reported.
FindFlagLockedWarnings_AnyEntry(n) ==
    IF flags_[n] # nullptr THEN 1 ELSE 0

\* FindFlagLocked's ReportUsageError(..., false) calls: one for a retired entry.
FindFlagLockedWarnings(n) ==
    IF flags_[n] # nullptr /\ IsRetired(flags_[n]) THEN 1 ELSE 0

\* return registry->FindFlagLocked(name); evaluated with the lock held.
FindCommandLineFlag_Locked(t) ==
    /\ ~exited
    /\ Goto(t, "FindFlag_locked", "FindFlag_return")
    /\ flag' = [flag EXCEPT ![t] = FindFlagLocked(name[t])]
    /\ warns' = [warns EXCEPT ![t] = @ + FindFlagLockedWarnings(name[t])]
    /\ UNCHANGED <<outer, objs, regVars, procVars, saverVars, op, name, saver, iterVars,
                   ret, ok, type_is_bool>>

\* ~FlagRegistryLock and the return.
FindCommandLineFlag_Return(t) ==
    /\ ~exited
    /\ Goto(t, "FindFlag_return", "done")
    /\ Unlock(t)
    /\ ret' = [ret EXCEPT ![t] = flag[t]]
    /\ UNCHANGED <<objs, flags_, procVars, saverVars, argVars, iterVars,
                   ok, type_is_bool, warns>>

\* ----------------------------------------- FindRetiredFlag, IsRetiredFlag
\* FindRetiredFlag(name): no test of name.empty().
FindRetiredFlag(t, n) ==
    /\ ~exited
    /\ Goto(t, "idle", "FindRetiredFlag")
    /\ op' = [op EXCEPT ![t] = "FindRetiredFlag"]
    /\ name' = [name EXCEPT ![t] = n]
    /\ UNCHANGED <<outer, objs, regVars, procVars, saverVars, flag, saver, iterVars, outVars>>

\* IsRetiredFlag(name, type_is_bool): assert(!name.empty()) is the caller's
\* obligation; then it calls FindRetiredFlag(name).
IsRetiredFlag(t, n) ==
    /\ ~exited
    /\ n # EmptyName
    /\ Goto(t, "idle", "FindRetiredFlag")
    /\ op' = [op EXCEPT ![t] = "IsRetiredFlag"]
    /\ name' = [name EXCEPT ![t] = n]
    /\ UNCHANGED <<outer, objs, regVars, procVars, saverVars, flag, saver, iterVars, outVars>>

FindRetiredFlag_Lock(t) ==
    /\ ~exited
    /\ Goto(t, "FindRetiredFlag", "FindRetiredFlag_locked")
    /\ Lock(t)
    /\ UNCHANGED <<objs, flags_, procVars, saverVars, argVars, iterVars, outVars>>

\* Faulty variant of FindRetiredFlagLocked, for comparison: the retired bit is not tested.
FindRetiredFlagLocked_AnyEntry(n) == flags_[n]

\* FindRetiredFlagLocked's result: the entry if it is retired.
FindRetiredFlagLocked(n) ==
    IF flags_[n] = nullptr \/ ~IsRetired(flags_[n]) THEN nullptr ELSE flags_[n]

FindRetiredFlag_Locked(t) ==
    /\ ~exited
    /\ Goto(t, "FindRetiredFlag_locked", "FindRetiredFlag_return")
    /\ flag' = [flag EXCEPT ![t] = FindRetiredFlagLocked(name[t])]
    /\ UNCHANGED <<outer, objs, regVars, procVars, saverVars, op, name, saver, iterVars, outVars>>

\* ~FlagRegistryLock and the return, to the caller or into IsRetiredFlag.
FindRetiredFlag_Return(t) ==
    /\ ~exited
    /\ pc[t] = "FindRetiredFlag_return"
    /\ pc' = [pc EXCEPT ![t] = IF op[t] = "IsRetiredFlag" THEN "IsRetiredFlag_found"
                                ELSE "done"]
    /\ Unlock(t)
    /\ ret' = [ret EXCEPT ![t] = flag[t]]
    /\ UNCHANGED <<objs, flags_, procVars, saverVars, argVars, iterVars,
                   ok, type_is_bool, warns>>

\* if (flag == nullptr) return false; *type_is_bool = ...; return true;
IsRetiredFlag_Return(t) ==
    /\ ~exited
    /\ Goto(t, "IsRetiredFlag_found", "done")
    /\ ok' = [ok EXCEPT ![t] = flag[t] # nullptr]
    /\ type_is_bool' = [type_is_bool EXCEPT ![t] =
            IF flag[t] = nullptr THEN @
            ELSE IF IsOfTypeBool(flag[t]) THEN "true" ELSE "false"]
    /\ ret' = [ret EXCEPT ![t] = nullptr]
    /\ UNCHANGED <<objs, regVars, procVars, saverVars, argVars, iterVars, warns>>

\* ------------------------------------------- ForEachFlag(Unlocked)
End == MaxName + 1   \* flags_.end()

\* Faulty variant of FirstFrom, for comparison: the greatest key with an entry is taken.
FirstFrom_Last(from) ==
    IF \E n \in Names : n >= from /\ flags_[n] # nullptr
    THEN CHOOSE n \in Names : /\ n >= from /\ flags_[n] # nullptr
                              /\ \A m \in Names : (m >= from /\ flags_[m] # nullptr) => n >= m
    ELSE End

\* flags_.begin(), and ++i: the least key with an entry, from `from` on.
FirstFrom(from) ==
    IF \E n \in Names : n >= from /\ flags_[n] # nullptr
    THEN CHOOSE n \in Names : /\ n >= from /\ flags_[n] # nullptr
                              /\ \A m \in Names : (m >= from /\ flags_[m] # nullptr) => n <= m
    ELSE End

\* ForEachFlag(visitor), called directly with a visitor that notes its argument.
ForEachFlag(t) ==
    /\ ~exited
    /\ Goto(t, "idle", "ForEachFlag")
    /\ op' = [op EXCEPT ![t] = "ForEachFlag"]
    /\ UNCHANGED <<outer, objs, regVars, procVars, saverVars, flag, name, saver, iterVars, outVars>>

\* Faulty variant of ForEachFlag_Lock, for comparison: the walk starts without the lock.
ForEachFlag_NoLock(t) ==
    /\ ~exited
    /\ Goto(t, "ForEachFlag", "ForEachFlagUnlocked")
    /\ i' = [i EXCEPT ![t] = FirstFrom(0)]
    /\ atCapture' = IF op[t] = "FlagSaver"
                    THEN [atCapture EXCEPT ![saver[t]] =
                            [n \in {m \in Names : flags_[m] # nullptr} |->
                                [flag |-> flags_[n], value |-> objs[flags_[n]].cur]]]
                    ELSE atCapture
    /\ UNCHANGED <<objs, regVars, procVars, impl_, backup_registry_, ignored, restores,
                   argVars, visited, pos, rewound, outVars>>

\* FlagRegistryLock frl(registry); then ForEachFlagUnlocked's i = flags_.begin().
\* A capture notes the registry and the values of this instant (history only).
ForEachFlag_Lock(t) ==
    /\ ~exited
    /\ Goto(t, "ForEachFlag", "ForEachFlagUnlocked")
    /\ Lock(t)
    /\ i' = [i EXCEPT ![t] = FirstFrom(0)]
    /\ atCapture' = IF op[t] = "FlagSaver"
                    THEN [atCapture EXCEPT ![saver[t]] =
                            [n \in {m \in Names : flags_[m] # nullptr} |->
                                [flag |-> flags_[n], value |-> objs[flags_[n]].cur]]]
                    ELSE atCapture
    /\ UNCHANGED <<objs, flags_, procVars, impl_, backup_registry_, ignored, restores,
                   argVars, visited, pos, rewound, outVars>>

\* RetiredFlagObj::SaveState: no state.
RetiredFlagObj_SaveState(id) == <<>>

\* SaveState of a live flag: a capsule of its current value, bound to the flag.
Flag_SaveState(id) == <<[flag |-> id, value |-> objs[id].cur]>>

\* flag->SaveState(), dispatched on the object's class.
SaveState(id) ==
    IF IsRetired(id) THEN RetiredFlagObj_SaveState(id) ELSE Flag_SaveState(id)

\* Faulty variant of SaveVisitor, for comparison: the capsule replaces the vector instead of extending it.
SaveVisitor_KeepsLast(backup, id) == SaveState(id)

\* SaveFromRegistry's visitor: if (auto flag_state = flag->SaveState())
\*   backup_registry_.emplace_back(std::move(flag_state));
SaveVisitor(backup, id) == backup \o SaveState(id)

\* Faulty variant of ForEachFlagUnlocked_Visit, for comparison: the visitor is called twice on each flag.
ForEachFlagUnlocked_Visit_Twice(t) ==
    /\ ~exited
    /\ pc[t] = "ForEachFlagUnlocked"
    /\ i[t] # End
    /\ visited' = [visited EXCEPT ![t] = Append(Append(@, flags_[i[t]]), flags_[i[t]])]
    /\ backup_registry_' =
          IF op[t] \in {"FlagSaver", "SaveFromRegistry"}
          THEN [backup_registry_ EXCEPT ![saver[t]] =
                    SaveVisitor(SaveVisitor(@, flags_[i[t]]), flags_[i[t]])]
          ELSE backup_registry_
    /\ i' = [i EXCEPT ![t] = FirstFrom(i[t] + 1)]
    /\ UNCHANGED <<objs, regVars, procVars, impl_, ignored, restores, atCapture,
                   pc, argVars, pos, rewound, outVars>>

\* One iteration of ForEachFlagUnlocked: visitor(i->second); ++i.
ForEachFlagUnlocked_Visit(t) ==
    /\ ~exited
    /\ pc[t] = "ForEachFlagUnlocked"
    /\ i[t] # End
    /\ visited' = [visited EXCEPT ![t] = Append(@, flags_[i[t]])]
    /\ backup_registry_' =
          IF op[t] \in {"FlagSaver", "SaveFromRegistry"}
          THEN [backup_registry_ EXCEPT ![saver[t]] = SaveVisitor(@, flags_[i[t]])]
          ELSE backup_registry_
    /\ i' = [i EXCEPT ![t] = FirstFrom(i[t] + 1)]
    /\ UNCHANGED <<objs, regVars, procVars, impl_, ignored, restores, atCapture,
                   pc, argVars, pos, rewound, outVars>>

\* The loop ended; ~FlagRegistryLock; return (for a capture: the constructor returns).
ForEachFlag_Return(t) ==
    /\ ~exited
    /\ Goto(t, "ForEachFlagUnlocked", "done")
    /\ op[t] # "ForEachFlagUnlocked"
    /\ i[t] = End
    /\ Unlock(t)
    /\ UNCHANGED <<objs, flags_, procVars, saverVars, argVars, iterVars, outVars>>

\* ForEachFlagUnlocked(visitor) called directly: i = flags_.begin(), no lock.
ForEachFlagUnlocked(t) ==
    /\ ~exited
    /\ Goto(t, "idle", "ForEachFlagUnlocked")
    /\ op' = [op EXCEPT ![t] = "ForEachFlagUnlocked"]
    /\ i' = [i EXCEPT ![t] = FirstFrom(0)]
    /\ UNCHANGED <<outer, objs, regVars, procVars, saverVars, flag, name, saver,
                   visited, pos, rewound, outVars>>

\* The loop of a direct ForEachFlagUnlocked ended; it returns.
ForEachFlagUnlocked_Return(t) ==
    /\ ~exited
    /\ Goto(t, "ForEachFlagUnlocked", "done")
    /\ op[t] = "ForEachFlagUnlocked"
    /\ i[t] = End
    /\ UNCHANGED <<objs, regVars, procVars, saverVars, argVars, iterVars, outVars>>

\* ------------------------------------------------------------- FlagSaver
\* Some thread is inside the saver's constructor or destructor.
Busy(s) == \E t \in Threads : saver[t] = s

\* FlagSaver::FlagSaver() : impl_(new FlagSaverImpl) { impl_->SaveFromRegistry(); }
FlagSaver_ctor(t, s) ==
    /\ ~exited
    /\ impl_[s] = "unborn"
    /\ ~Busy(s)
    /\ Goto(t, "idle", "SaveFromRegistry")
    /\ impl_' = [impl_ EXCEPT ![s] = "impl"]
    /\ op' = [op EXCEPT ![t] = "FlagSaver"]
    /\ saver' = [saver EXCEPT ![t] = s]
    /\ UNCHANGED <<outer, objs, regVars, procVars, backup_registry_, ignored, restores,
                   atCapture, flag, name, iterVars, outVars>>

\* SaveFromRegistry: assert(backup_registry_.empty()); ForEachFlag(...)
SaveFromRegistry(t) ==
    /\ ~exited
    /\ Goto(t, "SaveFromRegistry", "ForEachFlag")
    /\ backup_registry_[saver[t]] = <<>>
    /\ UNCHANGED <<objs, regVars, procVars, saverVars, argVars, iterVars, outVars>>

\* impl_->SaveFromRegistry() called once more on a saver already constructed.
SaveFromRegistry_Again(t, s) ==
    /\ ~exited
    /\ impl_[s] = "impl"
    /\ ~Busy(s)
    /\ Goto(t, "idle", "SaveFromRegistry")
    /\ op' = [op EXCEPT ![t] = "SaveFromRegistry"]
    /\ saver' = [saver EXCEPT ![t] = s]
    /\ UNCHANGED <<outer, objs, regVars, procVars, saverVars, flag, name, iterVars, outVars>>

\* assert(backup_registry_.empty()) fails: the process aborts.
SaveFromRegistry_AssertFails(t) ==
    /\ ~exited
    /\ Goto(t, "SaveFromRegistry", "exit")
    /\ backup_registry_[saver[t]] # <<>>
    /\ fatal' = "CallOnlyOnce"
    /\ exited' = TRUE
    /\ UNCHANGED <<objs, regVars, saverVars, argVars, iterVars, outVars>>

\* Faulty variant of FlagSaver_Ignore, for comparison: impl_ is left set.
FlagSaver_Ignore_KeepsImpl(t, s) ==
    /\ ~exited
    /\ pc[t] = "idle"
    /\ impl_[s] \in {"impl", "null"}
    /\ ~Busy(s)
    /\ ignored' = [ignored EXCEPT ![s] = TRUE]
    /\ UNCHANGED <<objs, regVars, procVars, impl_, backup_registry_, restores,
                   atCapture, pc, argVars, iterVars, outVars>>

\* FlagSaver::Ignore(): delete impl_; impl_ = nullptr;
FlagSaver_Ignore(t, s) ==
    /\ ~exited
    /\ pc[t] = "idle"
    /\ impl_[s] \in {"impl", "null"}
    /\ ~Busy(s)
    /\ impl_' = [impl_ EXCEPT ![s] = "null"]
    /\ backup_registry_' = [backup_registry_ EXCEPT ![s] = <<>>]
    /\ ignored' = [ignored EXCEPT ![s] = TRUE]
    /\ UNCHANGED <<objs, regVars, procVars, restores, atCapture, pc, argVars,
                   iterVars, outVars>>

\* FlagSaver::~FlagSaver(): if (!impl_) return; impl_->RestoreToRegistry(); ...
FlagSaver_dtor(t, s) ==
    /\ ~exited
    /\ pc[t] = "idle"
    /\ impl_[s] \in {"impl", "null"}
    /\ ~Busy(s)
    /\ pc' = [pc EXCEPT ![t] = IF impl_[s] = "null" THEN "done" ELSE "RestoreToRegistry"]
    /\ impl_' = [impl_ EXCEPT ![s] = IF @ = "null" THEN "gone" ELSE @]
    /\ restores' = [restores EXCEPT ![s] = IF impl_[s] = "null" THEN @ ELSE @ + 1]
    /\ op' = [op EXCEPT ![t] = "~FlagSaver"]
    /\ saver' = [saver EXCEPT ![t] = s]
    /\ pos' = [pos EXCEPT ![t] = 1]
    /\ UNCHANGED <<outer, objs, regVars, procVars, backup_registry_, ignored, atCapture,
                   flag, name, i, visited, rewound, outVars>>

\* flag_state->Restore(): the capsule's value goes back into its flag.
Restore(capsule) == [objs EXCEPT ![capsule.flag].cur = capsule.value]

\* Faulty variant of RestoreToRegistry_Restore, for comparison: the loop stops after the first capsule.
RestoreToRegistry_Restore_FirstOnly(t) ==
    /\ ~exited
    /\ pc[t] = "RestoreToRegistry"
    /\ pos[t] <= Len(backup_registry_[saver[t]])
    /\ objs' = Restore(backup_registry_[saver[t]][pos[t]])
    /\ pos' = [pos EXCEPT ![t] = Len(backup_registry_[saver[t]]) + 1]
    /\ rewound' = [rewound EXCEPT ![t] = @ \/ objs' # objs]
    /\ UNCHANGED <<regVars, procVars, saverVars, pc, argVars, i, visited, outVars>>

\* Faulty variant of RestoreToRegistry_Restore, for comparison: the loop waits for the registry lock to be free.
RestoreToRegistry_Restore_Locked(t) ==
    /\ ~exited
    /\ pc[t] = "RestoreToRegistry"
    /\ lock_ = NoThread
    /\ pos[t] <= Len(backup_registry_[saver[t]])
    /\ objs' = Restore(backup_registry_[saver[t]][pos[t]])
    /\ pos' = [pos EXCEPT ![t] = @ + 1]
    /\ rewound' = [rewound EXCEPT ![t] = @ \/ objs' # objs]
    /\ UNCHANGED <<regVars, procVars, saverVars, pc, argVars, i, visited, outVars>>

\* One iteration of RestoreToRegistry's loop.
RestoreToRegistry_Restore(t) ==
    /\ ~exited
    /\ pc[t] = "RestoreToRegistry"
    /\ pos[t] <= Len(backup_registry_[saver[t]])
    /\ objs' = Restore(backup_registry_[saver[t]][pos[t]])
    /\ pos' = [pos EXCEPT ![t] = @ + 1]
    /\ rewound' = [rewound EXCEPT ![t] = @ \/ objs' # objs]
    /\ UNCHANGED <<regVars, procVars, saverVars, pc, argVars, i, visited, outVars>>

\* The loop ended; delete impl_; the destructor returns.
FlagSaver_dtor_Return(t) ==
    /\ ~exited
    /\ Goto(t, "RestoreToRegistry", "done")
    /\ pos[t] > Len(backup_registry_[saver[t]])
    /\ impl_' = [impl_ EXCEPT ![saver[t]] = "gone"]
    /\ backup_registry_' = [backup_registry_ EXCEPT ![saver[t]] = <<>>]
    /\ UNCHANGED <<objs, regVars, procVars, ignored, restores, atCapture, argVars,
                   iterVars, outVars>>

\* ------------------------------------------------- the flags' own setter
\* A caller sets a registered live flag to another value (no registry lock).
SetValue(t, id, v) ==
    /\ ~exited
    /\ pc[t] = "idle"
    /\ id \in Registered
    /\ ~IsRetired(id)
    /\ objs[id].cur # v
    /\ objs' = [objs EXCEPT ![id].cur = v]
    /\ UNCHANGED <<regVars, procVars, saverVars, pc, argVars, iterVars, outVars>>

\* The caller takes the result; the thread's locals die.
Return(t) ==
    /\ ~exited
    /\ Goto(t, "done", "idle")
    /\ outer[t] = <<>>
    /\ op' = [op EXCEPT ![t] = ""]
    /\ flag' = [flag EXCEPT ![t] = nullptr]
    /\ name' = [name EXCEPT ![t] = EmptyName]
    /\ saver' = [saver EXCEPT ![t] = 0]
    /\ i' = [i EXCEPT ![t] = 0]
    /\ visited' = [visited EXCEPT ![t] = <<>>]
    /\ pos' = [pos EXCEPT ![t] = 0]
    /\ rewound' = [rewound EXCEPT ![t] = FALSE]
    /\ ret' = [ret EXCEPT ![t] = nullptr]
    /\ ok' = [ok EXCEPT ![t] = FALSE]
    /\ type_is_bool' = [type_is_bool EXCEPT ![t] = "untouched"]
    /\ warns' = [warns EXCEPT ![t] = 0]
    /\ atCapture' = IF op[t] = "~FlagSaver"
                    THEN [atCapture EXCEPT ![saver[t]] = <<>>]
                    ELSE atCapture
    /\ UNCHANGED <<outer, objs, regVars, procVars, impl_, backup_registry_, ignored, restores>>

\* ------------------------------------- calls made from inside a visitor
\* What a call made by a visitor leaves behind: the walk it interrupts.
Frame(t) ==
    [pc |-> pc[t], op |-> op[t], name |-> name[t], flag |-> flag[t],
     saver |-> saver[t], i |-> i[t], visited |-> visited[t]]

\* Thread t is inside ForEachFlag's walk, about to run the visitor (for a
\* capture: the flag's SaveState()) on the flag at the iterator.
InVisitor(t) ==
    /\ ~exited
    /\ pc[t] = "ForEachFlagUnlocked"
    /\ i[t] # End
    /\ outer[t] = <<>>
    /\ op[t] \in {"ForEachFlag", "FlagSaver"}

\* The visitor calls FindCommandLineFlag, FindRetiredFlag or IsRetiredFlag.
Visitor_Lookup(t, inner, n) ==
    /\ InVisitor(t)
    /\ inner \in {"FindCommandLineFlag", "FindRetiredFlag", "IsRetiredFlag"}
    /\ inner = "IsRetiredFlag" => n # EmptyName
    /\ outer' = [outer EXCEPT ![t] = Frame(t)]
    /\ op' = [op EXCEPT ![t] = inner]
    /\ name' = [name EXCEPT ![t] = n]
    /\ pc' = [pc EXCEPT ![t] =
                IF inner # "FindCommandLineFlag" THEN "FindRetiredFlag"
                ELSE IF n = EmptyName THEN "done" ELSE "FindFlag"]
    /\ UNCHANGED <<objs, regVars, procVars, saverVars, flag, saver, iterVars, outVars>>

\* The visitor calls ForEachFlag or ForEachFlagUnlocked.
Visitor_Enumerate(t, inner) ==
    /\ InVisitor(t)
    /\ inner \in {"ForEachFlag", "ForEachFlagUnlocked"}
    /\ outer' = [outer EXCEPT ![t] = Frame(t)]
    /\ op' = [op EXCEPT ![t] = inner]
    /\ pc' = [pc EXCEPT ![t] = inner]
    /\ i' = [i EXCEPT ![t] = IF inner = "ForEachFlagUnlocked" THEN FirstFrom(0) ELSE 0]
    /\ visited' = [visited EXCEPT ![t] = <<>>]
    /\ UNCHANGED <<objs, regVars, procVars, saverVars, flag, name, saver, pos, rewound,
                   outVars>>

\* The visitor calls RegisterCommandLineFlag (r false) or Retire (r true).
Visitor_Register(t, n, f, o, r) ==
    /\ InVisitor(t)
    /\ Len(objs) < MaxFlags
    /\ outer' = [outer EXCEPT ![t] = Frame(t)]
    /\ objs' = Append(objs, IF r THEN RetiredFlagObj(n, o) ELSE NewFlag(n, f, o))
    /\ op' = [op EXCEPT ![t] = IF r THEN "Retire" ELSE "RegisterCommandLineFlag"]
    /\ flag' = [flag EXCEPT ![t] = Len(objs) + 1]
    /\ name' = [name EXCEPT ![t] = n]
    /\ pc' = [pc EXCEPT ![t] = "RegisterFlag"]
    /\ UNCHANGED <<regVars, procVars, saverVars, saver, iterVars, outVars>>

\* The visitor constructs a FlagSaver.
Visitor_Capture(t, s) ==
    /\ InVisitor(t)
    /\ impl_[s] = "unborn"
    /\ ~Busy(s)
    /\ outer' = [outer EXCEPT ![t] = Frame(t)]
    /\ impl_' = [impl_ EXCEPT ![s] = "impl"]
    /\ op' = [op EXCEPT ![t] = "FlagSaver"]
    /\ saver' = [saver EXCEPT ![t] = s]
    /\ pc' = [pc EXCEPT ![t] = "SaveFromRegistry"]
    /\ UNCHANGED <<objs, regVars, procVars, backup_registry_, ignored, restores,
                   atCapture, flag, name, iterVars, outVars>>

\* The call made by the visitor returned: the walk goes on.
Visitor_Returns(t) ==
    /\ ~exited
    /\ pc[t] = "done"
    /\ outer[t] # <<>>
    /\ pc' = [pc EXCEPT ![t] = outer[t].pc]
    /\ op' = [op EXCEPT ![t] = outer[t].op]
    /\ name' = [name EXCEPT ![t] = outer[t].name]
    /\ flag' = [flag EXCEPT ![t] = outer[t].flag]
    /\ saver' = [saver EXCEPT ![t] = outer[t].saver]
    /\ i' = [i EXCEPT ![t] = outer[t].i]
    /\ visited' = [visited EXCEPT ![t] = outer[t].visited]
    /\ outer' = [outer EXCEPT ![t] = <<>>]
    /\ UNCHANGED <<objs, regVars, procVars, saverVars, pos, rewound, outVars>>

\* ~FlagRegistry(): p.second->Destroy() for every entry of flags_.
FlagRegistry_dtor ==
    [o \in FlagIds |->
        IF o \in Registered THEN [objs[o] EXCEPT !.destroyed = @ + 1] ELSE objs[o]]

\* Faulty variant of NormalExit, for comparison: the global registry is destroyed at exit.
NormalExit_DestroysRegistry(t) ==
    /\ ~exited
    /\ Goto(t, "idle", "teardown")
    /\ lock_ = NoThread
    /\ exited' = TRUE
    /\ objs' = FlagRegistry_dtor
    /\ UNCHANGED <<regVars, fatal, saverVars, argVars, iterVars, outVars>>

\* The program ends normally (main returns). GlobalRegistry()'s static is a
\* pointer to a `new FlagRegistry` that nothing deletes: no destructor of the
\* registry runs.
NormalExit(t) ==
    /\ ~exited
    /\ Goto(t, "idle", "teardown")
    /\ lock_ = NoThread
    /\ exited' = TRUE
    /\ UNCHANGED <<objs, regVars, fatal, saverVars, argVars, iterVars, outVars>>

\* Any step of thread t, its FlagSaver objects being those of S.
Step(t, S) ==
    \/ \E n \in Names, f \in Filenames, o \in Ops : RegisterCommandLineFlag(t, n, f, o)
    \/ \E n \in Names, o \in Ops : Retire(t, n, o)
    \/ RegisterFlag_Lock(t)
    \/ RegisterFlag_Insert(t)
    \/ RegisterFlag_Idempotent(t)
    \/ RegisterFlag_Fatal(t)
    \/ RegisterFlag_Return(t)
    \/ \E n \in Names : FindCommandLineFlag(t, n)
    \/ FindCommandLineFlag_Lock(t)
    \/ FindCommandLineFlag_Locked(t)
    \/ FindCommandLineFlag_Return(t)
    \/ \E n \in Names : FindRetiredFlag(t, n)
    \/ \E n \in Names : IsRetiredFlag(t, n)
    \/ FindRetiredFlag_Lock(t)
    \/ FindRetiredFlag_Locked(t)
    \/ FindRetiredFlag_Return(t)
    \/ IsRetiredFlag_Return(t)
    \/ ForEachFlag(t)
    \/ ForEachFlag_Lock(t)
    \/ ForEachFlagUnlocked_Visit(t)
    \/ ForEachFlag_Return(t)
    \/ \E s \in S : FlagSaver_ctor(t, s)
    \/ SaveFromRegistry(t)
    \/ \E s \in S : FlagSaver_Ignore(t, s)
    \/ \E s \in S : FlagSaver_dtor(t, s)
    \/ RestoreToRegistry_Restore(t)
    \/ FlagSaver_dtor_Return(t)
    \/ \E id \in FlagIds, v \in Values : SetValue(t, id, v)
    \/ Return(t)

\* A thread that only registers and retires flags.
Registrar(t) ==
    \/ \E n \in Names, f \in Filenames, o \in Ops : RegisterCommandLineFlag(t, n, f, o)
    \/ \E n \in Names, o \in Ops : Retire(t, n, o)
    \/ RegisterFlag_Lock(t)
    \/ RegisterFlag_Insert(t)
    \/ RegisterFlag_Idempotent(t)
    \/ RegisterFlag_Fatal(t)
    \/ RegisterFlag_Return(t)
    \/ Return(t)

\* A single-threaded program with one FlagSaver scope.
Next == Step(MainThread, {1})

Spec == Init /\ [][Next]_vars

\* A single-threaded program whose FlagSaver scopes may nest or overlap.
NextNested == Step(MainThread, Savers)

SpecNested == Init /\ [][NextNested]_vars

\* A single-threaded program in which SaveFromRegistry may be called again.
NextRecapture ==
    \/ Next
    \/ SaveFromRegistry_Again(MainThread, 1)
    \/ SaveFromRegistry_AssertFails(MainThread)

SpecRecapture == Init /\ [][NextRecapture]_vars

\* A single-threaded program that also calls ForEachFlagUnlocked directly.
NextEnum ==
    \/ Next
    \/ ForEachFlagUnlocked(MainThread)
    \/ ForEachFlagUnlocked_Return(MainThread)

SpecEnum == Init /\ [][NextEnum]_vars

\* A single-threaded program that may end normally.
NextTeardown ==
    \/ Next
    \/ NormalExit(MainThread)

SpecTeardown == Init /\ [][NextTeardown]_vars

\* A single-threaded program whose visitors call back into the registry.
NextReentrant ==
    \/ NextEnum
    \/ \E inner \in {"FindCommandLineFlag", "FindRetiredFlag", "IsRetiredFlag"},
          n \in Names : Visitor_Lookup(MainThread, inner, n)
    \/ \E inner \in {"ForEachFlag", "ForEachFlagUnlocked"} :
          Visitor_Enumerate(MainThread, inner)
    \/ \E n \in Names, f \in Filenames, o \in Ops, r \in BOOLEAN :
          Visitor_Register(MainThread, n, f, o, r)
    \/ \E s \in Savers : Visitor_Capture(MainThread, s)
    \/ Visitor_Returns(MainThread)

SpecReentrant == Init /\ [][NextReentrant]_vars

\* The main thread, with the other threads registering flags concurrently.
NextMT == Step(MainThread, {1}) \/ \E t \in Threads \ {MainThread} : Registrar(t)

SpecMT == Init /\ [][NextMT]_vars

\* ===================================================================== claims
\* The flags a capture found registered and live when it took the lock.
CapturedLive(s) ==
    {atCapture[s][n].flag :
        n \in {m \in DOMAIN atCapture[s] : ~IsRetired(atCapture[s][m].flag)}}

\* The flags the saver holds a capsule for.
Capsules(s) ==
    {backup_registry_[s][k].flag : k \in 1..Len(backup_registry_[s])}

\* C1 -- snapshot/restore round trip. When the constructor of a FlagSaver
\* returns, its snapshot holds one capsule for each live flag registered at
\* the capture and none for a retired flag; when the destructor of a saver
\* that was not Ignore()d returns, every flag registered at the capture has
\* the value it had at the capture, whatever was set in between (a retired
\* flag still has no value: the restore did not write it).
C1_RoundTrip ==
    \A t \in Threads :
        /\ (op[t] = "FlagSaver" /\ pc[t] = "done") =>
              /\ Capsules(saver[t]) = CapturedLive(saver[t])
              /\ Len(backup_registry_[saver[t]]) = Cardinality(CapturedLive(saver[t]))
              /\ \A k \in 1..Len(backup_registry_[saver[t]]) :
                    ~IsRetired(backup_registry_[saver[t]][k].flag)
        /\ (op[t] = "~FlagSaver" /\ pc[t] = "done" /\ ~ignored[saver[t]]) =>
              \A n \in DOMAIN atCapture[saver[t]] :
                    objs[atCapture[saver[t]][n].flag].cur = atCapture[saver[t]][n].value

\* A destructor has returned after a restore that changed a value back, the
\* capture having also met a retired flag.
C1_Witness ==
    \E t \in Threads :
        /\ op[t] = "~FlagSaver" /\ pc[t] = "done" /\ ~ignored[saver[t]]
        /\ rewound[t]
        /\ \E n \in DOMAIN atCapture[saver[t]] : IsRetired(atCapture[saver[t]][n].flag)

\* C2 -- discard semantics. RestoreToRegistry never runs on a saver that was
\* Ignore()d, and no step that discards a saver or ends the scope of a
\* discarded saver changes any flag; a saver whose scope ended without a
\* discard ran RestoreToRegistry exactly once.
C2_Discard ==
    /\ [](\A s \in Savers :
            /\ ignored[s] => restores[s] = 0
            /\ (impl_[s] = "gone" /\ ~ignored[s]) => restores[s] = 1
            /\ restores[s] <= 1)
    /\ [](\A t \in Threads :
            (op[t] = "~FlagSaver" /\ ignored[saver[t]]) => (pc[t] = "done" /\ ~rewound[t]))
    /\ [][\A s \in Savers :
            (ignored'[s] /\ (impl_'[s] # impl_[s] \/ ~ignored[s])) => objs' = objs]_vars

\* The scope of a discarded saver has ended, and a flag it had captured still
\* has the value set after the capture.
C2_Witness ==
    \E t \in Threads :
        /\ op[t] = "~FlagSaver" /\ pc[t] = "done"
        /\ ignored[saver[t]] /\ impl_[saver[t]] = "gone"
        /\ \E n \in DOMAIN atCapture[saver[t]] :
              objs[atCapture[saver[t]][n].flag].cur # atCapture[saver[t]][n].value

\* Thread t, holding the lock in RegisterFlag, found its name taken.
Collides(t) ==
    /\ pc[t] = "RegisterFlag_locked"
    /\ flags_[name[t]] # nullptr

\* C3 -- live-vs-live conflict fatality. A RegisterFlag of a non-retired flag
\* that finds its name held by a non-retired flag ends in std::exit(1) after
\* a fatal message, whatever the two types and files are; it never returns.
C3_LiveConflictFatal ==
    [][\A t \in Threads :
          (/\ Collides(t)
           /\ ~IsRetired(flag[t]) /\ ~IsRetired(flags_[name[t]])
           /\ pc'[t] # pc[t])
          => /\ pc'[t] = "exit"
             /\ exited'
             /\ fatal' \in {"DifferingTypes", "DefinedMoreThanOnce", "SomethingWrong"}]_vars

\* The process exited on the second registration of the same name, type and file.
C3_Witness ==
    \E t \in Threads :
        /\ pc[t] = "exit" /\ exited
        /\ ~IsRetired(flag[t]) /\ ~IsRetired(flags_[name[t]])
        /\ objs[flag[t]].op_ = objs[flags_[name[t]]].op_
        /\ objs[flag[t]].filename = objs[flags_[name[t]]].filename

\* The flags whose registration was accepted: stored, or destroyed as a duplicate.
Accepted == {o \in FlagIds : o \in Registered \/ objs[o].destroyed > 0}

\* C4 -- retired vs live exclusivity. A RegisterFlag that finds its name held
\* by a flag of the other kind (retired against live, either way round) ends
\* in std::exit(1) with the "retired flag defined normally" message, whether or
\* not the types agree; so while the process runs no name has been accepted
\* both for a live flag and for a tombstone.
C4_RetiredLiveExclusive ==
    /\ [][\A t \in Threads :
            (/\ Collides(t)
             /\ IsRetired(flag[t]) # IsRetired(flags_[name[t]])
             /\ pc'[t] # pc[t])
            => /\ pc'[t] = "exit"
               /\ exited'
               /\ fatal' = "RetiredDefinedNormally"]_vars
    /\ [](~exited =>
            \A a \in Accepted, b \in Accepted :
                objs[a].name = objs[b].name => objs[a].retired = objs[b].retired)

\* The process exited on a Retire of a name held by a live flag of the same type.
C4_Witness ==
    \E t \in Threads :
        /\ pc[t] = "exit" /\ exited /\ fatal = "RetiredDefinedNormally"
        /\ IsRetired(flag[t]) /\ ~IsRetired(flags_[name[t]])
        /\ objs[flag[t]].op_ = objs[flags_[name[t]]].op_

\* Flag o is inside RegisterFlag and its fate is not yet decided (or never was:
\* the process exited).
InRegisterFlag(o) ==
    \E t \in Threads :
        flag[t] = o /\ pc[t] \in {"RegisterFlag", "RegisterFlag_locked", "exit"}

\* C5 -- retirement idempotence. Every Retire that returns, returns true; a
\* RegisterFlag that returns although the name was taken left flags_ as it was
\* and destroyed the incoming flag once, touching no other flag; so for every
\* tombstone whose registration is over, the entry of its name is one retired,
\* undestroyed flag, and the tombstone is that entry or was destroyed exactly
\* once and is not in the registry.
C5_RetireIdempotent ==
    /\ [](\A t \in Threads : (op[t] = "Retire" /\ pc[t] = "done") => ok[t])
    /\ [](\A o \in FlagIds :
            (IsRetired(o) /\ ~InRegisterFlag(o)) =>
                /\ flags_[objs[o].name] # nullptr
                /\ IsRetired(flags_[objs[o].name])
                /\ objs[flags_[objs[o].name]].destroyed = 0
                /\ o # flags_[objs[o].name] =>
                      (objs[o].destroyed = 1 /\ o \notin Registered))
    /\ [][\A t \in Threads :
            (Collides(t) /\ pc'[t] = "RegisterFlag_return") =>
                /\ flags_' = flags_
                /\ objs'[flag[t]].destroyed = 1
                /\ \A o \in FlagIds : o # flag[t] => objs'[o] = objs[o]]_vars

\* A second Retire of a name returned true; its tombstone was destroyed and the
\* first one is still the entry.
C5_Witness ==
    \E t \in Threads :
        /\ op[t] = "Retire" /\ pc[t] = "done" /\ ok[t]
        /\ flags_[name[t]] # flag[t]
        /\ objs[flag[t]].destroyed = 1
        /\ objs[flags_[name[t]]].destroyed = 0

\* C6 -- uniqueness and permanence of bindings. An entry of flags_ is an
\* undestroyed flag of that very name (so no flag is bound under two names and
\* no name has two entries), and no step of any operation, a restore included,
\* removes an entry or binds its name to another flag.
C6_UniquePermanent ==
    /\ [](\A n \in Names :
            flags_[n] # nullptr =>
                (objs[flags_[n]].name = n /\ objs[flags_[n]].destroyed = 0))
    /\ [][\A n \in Names : flags_[n] # nullptr => flags_'[n] = flags_[n]]_vars

\* A restore has changed a value back while the registry held two flags.
C6_Witness ==
    \E t \in Threads :
        /\ op[t] = "~FlagSaver" /\ pc[t] = "done" /\ rewound[t]
        /\ Cardinality(Registered) = 2

\* The flag of thread t and the entry of its name are tombstones of one type.
BothRetiredSameType(t) ==
    /\ flags_[name[t]] # nullptr
    /\ IsRetired(flag[t]) /\ IsRetired(flags_[name[t]])
    /\ objs[flag[t]].op_ = objs[flags_[name[t]]].op_

\* C7 -- RegisterCommandLineFlag and Retire return true or the process exits.
\* A call that returned has returned true, and its flag is the entry of its
\* name or both are tombstones of one type; a thread that called std::exit
\* reported a fatal message; and under the lock the call goes on to return
\* exactly when the name is free or both are tombstones of one type, and to
\* std::exit otherwise.
C7_TrueOrExit ==
    /\ [](\A t \in Threads :
            /\ (op[t] \in {"RegisterCommandLineFlag", "Retire"} /\ pc[t] = "done") =>
                  /\ ok[t]
                  /\ flags_[name[t]] = flag[t]
                        \/ (BothRetiredSameType(t) /\ flags_[name[t]] # flag[t])
            /\ pc[t] = "exit" => (exited /\ fatal # ""))
    /\ [][\A t \in Threads :
            (pc[t] = "RegisterFlag_locked" /\ pc'[t] # pc[t]) =>
                IF flags_[name[t]] = nullptr \/ BothRetiredSameType(t)
                THEN pc'[t] = "RegisterFlag_return" /\ ~exited'
                ELSE pc'[t] = "exit" /\ exited']_vars

\* A RegisterCommandLineFlag returned true with its flag stored.
C7_Witness ==
    \E t \in Threads :
        /\ op[t] = "RegisterCommandLineFlag" /\ pc[t] = "done" /\ ok[t]
        /\ flags_[name[t]] = flag[t]

\* The entry of n, if it is a retired flag.
RetiredEntry(n) ==
    IF flags_[n] # nullptr /\ IsRetired(flags_[n]) THEN flags_[n] ELSE nullptr

\* C8 as stated -- every FindCommandLineFlag(x) with x bound to a retired flag
\* returns that flag and reports exactly one warning.
C8_AsStated ==
    \A t \in Threads :
        (op[t] = "FindCommandLineFlag" /\ pc[t] = "done"
            /\ RetiredEntry(name[t]) # nullptr) =>
                (ret[t] = flags_[name[t]] /\ warns[t] = 1)

\* C8 as amended -- lookup warning. A FindCommandLineFlag(x) with a non-empty x
\* bound to a retired flag returns that flag and has reported exactly one
\* warning; for the empty name it returns nullptr and for any other name the
\* entry (or nullptr), with no warning; FindRetiredFlag(x) returns the retired
\* flag bound to x (or nullptr) and has reported no warning. The step that
\* reports a warning does not end the process.
C8_LookupWarning ==
    /\ [](\A t \in Threads :
            /\ (op[t] = "FindCommandLineFlag" /\ pc[t] = "done") =>
                  IF name[t] # EmptyName /\ RetiredEntry(name[t]) # nullptr
                  THEN ret[t] = flags_[name[t]] /\ warns[t] = 1
                  ELSE /\ warns[t] = 0
                       /\ ret[t] = (IF name[t] = EmptyName THEN nullptr
                                    ELSE flags_[name[t]])
            /\ (op[t] = "FindRetiredFlag" /\ pc[t] = "done") =>
                  (ret[t] = RetiredEntry(name[t]) /\ warns[t] = 0))
    /\ [][\A t \in Threads :
            warns'[t] > warns[t] => (~exited' /\ pc'[t] = "FindFlag_return")]_vars

\* FindCommandLineFlag returned a retired flag and reported one warning.
C8_Witness ==
    \E t \in Threads :
        /\ op[t] = "FindCommandLineFlag" /\ pc[t] = "done"
        /\ ret[t] # nullptr /\ IsRetired(ret[t])
        /\ warns[t] = 1
        /\ ~exited

CapturedAll(s) == {atCapture[s][n].flag : n \in DOMAIN atCapture[s]}

\* C10 -- point-in-time capture. The instant is the capture's acquisition of
\* the lock: throughout the walk flags_ is what it was at that instant, and at
\* the end of the walk (and when the constructor has returned) the snapshot
\* holds one capsule for each live flag registered at that instant and nothing
\* else; a step of a later restore changes no flag registered after it.
C10_PointInTime ==
    /\ [](\A t \in Threads :
            /\ (op[t] = "FlagSaver" /\ pc[t] = "ForEachFlagUnlocked") =>
                  /\ DOMAIN atCapture[saver[t]] = {n \in Names : flags_[n] # nullptr}
                  /\ \A n \in DOMAIN atCapture[saver[t]] :
                        atCapture[saver[t]][n].flag = flags_[n]
            /\ (op[t] = "FlagSaver"
                  /\ (pc[t] = "done" \/ (pc[t] = "ForEachFlagUnlocked" /\ i[t] = End))) =>
                  /\ Capsules(saver[t]) = CapturedLive(saver[t])
                  /\ Len(backup_registry_[saver[t]]) = Cardinality(CapturedLive(saver[t])))
    /\ [][\A t \in Threads :
            (pc[t] = "RestoreToRegistry" /\ pos'[t] # pos[t]) =>
                \A o \in FlagIds : o \notin CapturedAll(saver[t]) => objs'[o] = objs[o]]_vars

\* A restore changed a captured flag back and left alone the value set on a
\* flag registered after the capture.
C10_Witness ==
    \E t \in Threads :
        /\ op[t] = "~FlagSaver" /\ pc[t] = "done" /\ rewound[t]
        /\ \E o \in Registered :
              /\ o \notin CapturedAll(saver[t])
              /\ ~IsRetired(o)
              /\ objs[o].cur # 0

\* Thread t is between the construction and the destruction of a
\* FlagRegistryLock.
InCriticalSection(t) ==
    /\ pc[t] \in {"RegisterFlag_locked", "RegisterFlag_return",
                  "FindFlag_locked", "FindFlag_return",
                  "FindRetiredFlag_locked", "FindRetiredFlag_return",
                  "ForEachFlagUnlocked"}
    /\ op[t] # "ForEachFlagUnlocked"

\* Thread t is in RegisterFlag, past the insert attempt and the conflict rules.
Registering(t) ==
    /\ op[t] \in {"RegisterCommandLineFlag", "Retire"}
    /\ pc[t] \in {"RegisterFlag_return", "done", "exit"}

\* C11 -- registration atomicity. A thread inside a locked section holds the
\* registry lock, so while one thread is in RegisterFlag's locked section no
\* other thread is inside a registration, a lookup or an enumeration. The
\* insert attempt and the conflict rules are one step taken with the lock
\* held before and after: a free name is bound to the incoming flag, a taken
\* name leaves flags_ as it is and the outcome is the conflict rule's for the
\* incoming flag against the entry. Of two threads that both registered one
\* name, at most one owns the entry and the entry exists.
C11_RegistrationAtomic ==
    /\ [](\A t \in Threads : InCriticalSection(t) => lock_ = t)
    /\ [](\A t \in Threads, u \in Threads :
            (t # u /\ pc[t] \in {"RegisterFlag_locked", "RegisterFlag_return"})
                => ~InCriticalSection(u))
    /\ [](\A t \in Threads, u \in Threads :
            (t # u /\ Registering(t) /\ Registering(u) /\ name[t] = name[u]) =>
                /\ flags_[name[t]] # nullptr
                /\ ~(flags_[name[t]] = flag[t] /\ flags_[name[t]] = flag[u]))
    /\ [][\A t \in Threads :
            (pc[t] = "RegisterFlag_locked" /\ pc'[t] # pc[t]) =>
                /\ lock_ = t /\ lock_' = t
                /\ IF flags_[name[t]] = nullptr
                   THEN /\ flags_' = [flags_ EXCEPT ![name[t]] = flag[t]]
                        /\ pc'[t] = "RegisterFlag_return"
                   ELSE /\ flags_' = flags_
                        /\ IF Conflict(objs[flag[t]], objs[flags_[name[t]]]) = "Idempotent"
                           THEN pc'[t] = "RegisterFlag_return"
                           ELSE /\ pc'[t] = "exit"
                                /\ fatal' = Conflict(objs[flag[t]], objs[flags_[name[t]]])]_vars

\* One thread has inserted its flag and still holds the lock while another,
\* registering the same name, waits for the lock.
C11_Witness ==
    \E t \in Threads, u \in Threads :
        /\ t # u
        /\ pc[t] = "RegisterFlag_return" /\ flags_[name[t]] = flag[t] /\ lock_ = t
        /\ pc[u] = "RegisterFlag" /\ name[u] = name[t]

\* C12 -- restore takes no registry lock. No step of ~FlagSaver, from its call
\* to its return, changes lock_, and a thread inside RestoreToRegistry does not
\* hold the lock; while the process runs, the next step of a restore in
\* progress (one more capsule, or the return) is possible whoever holds the
\* lock, and a thread about to register is kept waiting only by a holder of
\* the lock, which a restoring thread is not.
C12_RestoreLockFree ==
    /\ [](\A t \in Threads : pc[t] = "RestoreToRegistry" => lock_ # t)
    /\ [](\A t \in Threads :
            (pc[t] = "RestoreToRegistry" /\ ~exited) =>
                ENABLED (RestoreToRegistry_Restore(t) \/ FlagSaver_dtor_Return(t)))
    /\ [](\A u \in Threads :
            (pc[u] = "RegisterFlag" /\ ~exited /\ lock_ = NoThread) =>
                ENABLED RegisterFlag_Lock(u))
    /\ [][\A t \in Threads :
            (op'[t] = "~FlagSaver" /\ (pc'[t] # pc[t] \/ pos'[t] # pos[t])) =>
                lock_' = lock_]_vars

\* A restore has written its capsules back while another thread holds the
\* lock, about to insert a new name.
C12_Witness ==
    \E t \in Threads, u \in Threads :
        /\ t # u
        /\ pc[t] = "RestoreToRegistry"
        /\ Len(backup_registry_[saver[t]]) > 0
        /\ pos[t] > Len(backup_registry_[saver[t]])
        /\ lock_ = u /\ pc[u] = "RegisterFlag_locked"
        /\ flags_[name[u]] = nullptr

\* C13 as stated -- capture once. A second SaveFromRegistry on the same
\* FlagSaverImpl never gets past assert(backup_registry_.empty()): it is at
\* the assertion or the process has aborted there, whatever the registry held
\* at the first capture.
C13_AsStated ==
    \A t \in Threads :
        op[t] = "SaveFromRegistry" => pc[t] \in {"SaveFromRegistry", "exit"}

\* SaveState() is called on each registered flag once per capture, with the
\* registry lock held: a step of a capture's walk that calls the visitor is
\* taken with the lock held before and after, and at the end of the walk the
\* visitor has been called once on every registered flag.
SaveStateOnceLocked ==
    /\ [](\A t \in Threads :
            (op[t] = "FlagSaver" /\ pc[t] = "ForEachFlagUnlocked" /\ i[t] = End) =>
                /\ {visited[t][k] : k \in 1..Len(visited[t])} = Registered
                /\ Len(visited[t]) = Cardinality(Registered))
    /\ [][\A t \in Threads :
            (op[t] = "FlagSaver" /\ visited'[t] # visited[t] /\ pc'[t] = pc[t]) =>
                (lock_ = t /\ lock_' = t)]_vars

\* C14 as stated -- no capability of a flag other than SaveState() is called
\* with the registry lock held; in particular no Destroy() is.
C14_AsStated ==
    /\ SaveStateOnceLocked
    /\ [][\A o \in FlagIds :
            objs'[o].destroyed # objs[o].destroyed => (lock_ = NoThread)]_vars

\* C14 as amended -- lock discipline. SaveState() is called once per flag per
\* capture with the lock held; Restore() is called by a thread that does not
\* hold the lock; the one Destroy() of this code, of a duplicate tombstone, is
\* called by RegisterFlag with the lock held before and after, on the incoming
\* flag only.
C14_LockDiscipline ==
    /\ SaveStateOnceLocked
    /\ [][\A t \in Threads : pos'[t] > pos[t] => (lock_ # t /\ lock_' # t)]_vars
    /\ [][\A o \in FlagIds :
            objs'[o].destroyed # objs[o].destroyed =>
                \E t \in Threads :
                    /\ pc[t] = "RegisterFlag_locked" /\ flag[t] = o
                    /\ lock_ = t /\ lock_' = t]_vars

\* RegisterFlag has destroyed a duplicate tombstone and still holds the lock.
C14_Witness ==
    \E t \in Threads :
        /\ pc[t] = "RegisterFlag_return" /\ lock_ = t
        /\ objs[flag[t]].destroyed = 1
        /\ flags_[name[t]] # flag[t]

\* C15 -- the conflict rules apply in order, the first that matches deciding.
\* For a RegisterFlag that finds its name taken: differing retired bits give
\* the "retired flag defined normally" message even when the types differ
\* too; equal retired bits and differing types give "differing types", for two
\* tombstones as for two live flags and whatever the files; two tombstones of
\* one type return without a message; "defined more than once" and "something
\* wrong" are reported only for two live flags of one type, the former when
\* the files differ and the latter when they are the same.
C15_RuleOrder ==
    [][\A t \in Threads :
          (Collides(t) /\ pc'[t] # pc[t]) =>
              /\ objs[flag[t]].retired # objs[flags_[name[t]]].retired =>
                    (exited' /\ fatal' = "RetiredDefinedNormally")
              /\ (/\ objs[flag[t]].retired = objs[flags_[name[t]]].retired
                  /\ objs[flag[t]].op_ # objs[flags_[name[t]]].op_) =>
                    (exited' /\ fatal' = "DifferingTypes")
              /\ (/\ objs[flag[t]].retired /\ objs[flags_[name[t]]].retired
                  /\ objs[flag[t]].op_ = objs[flags_[name[t]]].op_) =>
                    (~exited' /\ fatal' = "" /\ pc'[t] = "RegisterFlag_return")
              /\ fatal' \in {"DefinedMoreThanOnce", "SomethingWrong"} =>
                    /\ ~objs[flag[t]].retired /\ ~objs[flags_[name[t]]].retired
                    /\ objs[flag[t]].op_ = objs[flags_[name[t]]].op_
                    /\ (fatal' = "DefinedMoreThanOnce") =
                          (objs[flag[t]].filename # objs[flags_[name[t]]].filename)]_vars

\* The process exited with "retired flag defined normally" on a collision of
\* a live flag with a tombstone of another type.
C15_Witness ==
    \E t \in Threads :
        /\ pc[t] = "exit" /\ exited /\ fatal = "RetiredDefinedNormally"
        /\ objs[flag[t]].retired # objs[flags_[name[t]]].retired
        /\ objs[flag[t]].op_ # objs[flags_[name[t]]].op_

\* The registered flags with a name below `upto`, in ascending order of name.
RECURSIVE Ascending(_)
Ascending(upto) ==
    IF upto = 0 THEN <<>>
    ELSE IF flags_[upto - 1] = nullptr THEN Ascending(upto - 1)
    ELSE Append(Ascending(upto - 1), flags_[upto - 1])

\* C16 -- enumeration. While a walk is under way the visitor has been called
\* once on each registered flag whose name precedes the iterator, retired or
\* not, in ascending order of name, so a walk that returned has visited every
\* registered flag once, in that order. ForEachFlag takes the lock on its first
\* step, holds it through the walk and has released it when it returns, and
\* no other step of it changes lock_; no step of a direct ForEachFlagUnlocked
\* changes lock_. No step of either changes the registry or a flag.
C16_Enumeration ==
    /\ [](\A t \in Threads :
            /\ pc[t] = "ForEachFlagUnlocked" => visited[t] = Ascending(i[t])
            /\ (op[t] \in {"ForEachFlag", "ForEachFlagUnlocked"} /\ pc[t] = "done") =>
                  (visited[t] = Ascending(End) /\ lock_ # t)
            /\ op[t] = "ForEachFlag" => (lock_ = t) = (pc[t] = "ForEachFlagUnlocked"))
    /\ [][\A t \in Threads :
            /\ (op'[t] = "ForEachFlag" /\ lock_' # lock_) =>
                  \/ (pc[t] = "ForEachFlag" /\ lock_ = NoThread /\ lock_' = t)
                  \/ (pc'[t] = "done" /\ lock_ = t /\ lock_' = NoThread)
            /\ (op'[t] = "ForEachFlagUnlocked"
                    /\ (pc'[t] # pc[t] \/ visited'[t] # visited[t])) => lock_' = lock_
            /\ (op'[t] \in {"ForEachFlag", "ForEachFlagUnlocked"}
                    /\ (pc'[t] # pc[t] \/ visited'[t] # visited[t])) =>
                  (flags_' = flags_ /\ objs' = objs)]_vars

\* A direct ForEachFlagUnlocked returned having visited a tombstone and a live
\* flag.
C16_Witness ==
    \E t \in Threads :
        /\ op[t] = "ForEachFlagUnlocked" /\ pc[t] = "done"
        /\ Len(visited[t]) = 2
        /\ IsRetired(visited[t][1]) # IsRetired(visited[t][2])

\* C17 as stated -- FindCommandLineFlag and FindRetiredFlag alike return for
\* the empty name without acquiring the lock: a call of either with the empty
\* name is never found waiting for the lock or holding it.
C17_AsStated ==
    \A t \in Threads :
        (op[t] \in {"FindCommandLineFlag", "FindRetiredFlag"} /\ name[t] = EmptyName)
            => (pc[t] = "done" /\ ret[t] = nullptr)

\* C17 as amended -- empty-name lookups. FindCommandLineFlag of the empty name
\* returns nullptr in its first step without changing lock_, and that step is
\* possible whoever holds the lock. FindRetiredFlag has no such test: for
\* every name, the empty one included, its first step leads to the
\* acquisition of the lock, which it takes only when the lock is free, so it
\* cannot go on while another thread holds the lock.
C17_EmptyNameLookup ==
    /\ [](\A t \in Threads :
            /\ (op[t] = "FindCommandLineFlag" /\ name[t] = EmptyName) =>
                  (pc[t] = "done" /\ ret[t] = nullptr)
            /\ (pc[t] = "idle" /\ ~exited) => ENABLED FindCommandLineFlag(t, EmptyName)
            /\ (op[t] = "FindRetiredFlag" /\ pc[t] = "FindRetiredFlag"
                    /\ lock_ # NoThread) => ~ENABLED FindRetiredFlag_Lock(t))
    /\ [][\A t \in Threads :
            /\ (pc[t] = "idle" /\ op'[t] = "FindCommandLineFlag" /\ name'[t] = EmptyName)
                  => (pc'[t] = "done" /\ lock_' = lock_)
            /\ (pc[t] = "idle" /\ op'[t] = "FindRetiredFlag")
                  => (pc'[t] = "FindRetiredFlag" /\ lock_' = lock_)
            /\ (op[t] = "FindRetiredFlag" /\ pc[t] = "FindRetiredFlag" /\ pc'[t] # pc[t])
                  => (lock_ = NoThread /\ lock_' = t)]_vars

\* FindCommandLineFlag of the empty name has returned nullptr while another
\* thread holds the lock.
C17_Witness ==
    \E t \in Threads, u \in Threads :
        /\ t # u
        /\ op[t] = "FindCommandLineFlag" /\ name[t] = EmptyName
        /\ pc[t] = "done" /\ ret[t] = nullptr
        /\ lock_ = u

\* C18 as stated -- teardown ownership. After a normal exit every flag the
\* global registry holds has been destroyed exactly once.
C18_AsStated ==
    (exited /\ fatal = "") => \A o \in Registered : objs[o].destroyed = 1

\* C18 as amended -- the global registry is never destroyed. A normal exit
\* changes neither the registry nor any flag: the flags the registry holds are
\* never destroyed, before the exit or by it; the only flags ever destroyed are
\* duplicate tombstones, once each, and they are not in the registry.
C18_NoTeardown ==
    /\ [](\A o \in FlagIds :
            /\ o \in Registered => objs[o].destroyed = 0
            /\ objs[o].destroyed <= 1
            /\ objs[o].destroyed = 1 => IsRetired(o))
    /\ [][(exited' /\ ~exited /\ fatal' = "") => (objs' = objs /\ flags_' = flags_)]_vars

\* The program ended normally with a live flag and a tombstone registered,
\* neither destroyed.
C18_Witness ==
    /\ exited /\ fatal = ""
    /\ Cardinality(Registered) = 2
    /\ \E a \in Registered, b \in Registered : IsRetired(a) /\ ~IsRetired(b)
    /\ \A o \in Registered : objs[o].destroyed = 0

\* The call thread t makes from inside a visitor is one that acquires the
\* registry lock.
LockAcquiring(t) ==
    /\ outer[t] # <<>>
    /\ \/ op[t] \in {"FindRetiredFlag", "IsRetiredFlag", "ForEachFlag",
                     "RegisterCommandLineFlag", "Retire", "FlagSaver"}
       \/ (op[t] = "FindCommandLineFlag" /\ name[t] # EmptyName)

\* C19 -- re-entrancy. While a visitor of ForEachFlag, or a SaveState() of a
\* capture, is inside a call back into the registry, its thread holds the lock.
\* If the call is one that acquires the lock (FindCommandLineFlag of a
\* non-empty name, FindRetiredFlag, IsRetiredFlag, ForEachFlag,
\* RegisterCommandLineFlag, Retire, a FlagSaver constructor) the thread never
\* gets past the acquisition: it stays in that call for ever, the interrupted
\* walk is never resumed, and once it is at the acquisition no step at all is
\* possible. Only a call of ForEachFlagUnlocked or of FindCommandLineFlag with
\* the empty name returns to the visitor, and it returns with the lock still
\* held by the walk.
C19_ReentryBlocks ==
    /\ [](\A t \in Threads :
            /\ outer[t] # <<>> => lock_ = t
            /\ LockAcquiring(t) =>
                  /\ pc[t] \in {"FindFlag", "FindRetiredFlag", "ForEachFlag",
                                "RegisterFlag", "SaveFromRegistry"}
                  /\ pc[t] # "SaveFromRegistry" => ~ENABLED NextReentrant)
    /\ [][\A t \in Threads :
            /\ LockAcquiring(t) => (LockAcquiring(t)' /\ outer'[t] = outer[t])
            /\ (outer[t] # <<>> /\ outer'[t] = <<>>) =>
                  /\ \/ op[t] = "ForEachFlagUnlocked"
                     \/ (op[t] = "FindCommandLineFlag" /\ name[t] = EmptyName)
                  /\ pc'[t] = "ForEachFlagUnlocked" /\ lock_' = t]_vars

\* A SaveState() called by a capture has called FindRetiredFlag, which waits
\* for the lock its own thread holds.
C19_Witness ==
    \E t \in Threads :
        /\ outer[t] # <<>> /\ outer[t].op = "FlagSaver"
        /\ op[t] = "FindRetiredFlag" /\ pc[t] = "FindRetiredFlag"
        /\ lock_ = t

\* C20 -- nested snapshots. With several FlagSavers alive at once, whatever
\* was set and whichever other saver was constructed, discarded or destroyed
\* since its capture: when the destructor of a saver that was not Ignore()d
\* returns, every flag it captured has the value of its capture (so of two
\* nested scopes the outer one, destroyed last, prevails). Each step of a
\* restore writes the value of one capsule into that capsule's flag and
\* changes nothing else, so after several restores a flag holds the value
\* written by the last restore that had a capsule for it, and a flag in no
\* capsule is as it was.
C20_Nested ==
    /\ [](\A t \in Threads :
            (op[t] = "~FlagSaver" /\ pc[t] = "done" /\ ~ignored[saver[t]]) =>
                \A o \in CapturedLive(saver[t]) :
                    \E n \in DOMAIN atCapture[saver[t]] :
                        /\ atCapture[saver[t]][n].flag = o
                        /\ objs[o].cur = atCapture[saver[t]][n].value)
    /\ [][\A t \in Threads :
            (pc[t] = "RestoreToRegistry" /\ pos'[t] # pos[t]) =>
                /\ pos'[t] = pos[t] + 1
                /\ objs'[backup_registry_[saver[t]][pos[t]].flag].cur =
                        backup_registry_[saver[t]][pos[t]].value
                /\ \A o \in FlagIds :
                        o # backup_registry_[saver[t]][pos[t]].flag => objs'[o] = objs[o]
                /\ \A o \in FlagIds :
                        objs'[o] = [objs[o] EXCEPT !.cur = objs'[o].cur]]_vars

\* The destructor of one saver has changed a flag back to the value of its
\* capture while another saver, still alive, holds another value for that flag.
C20_Witness ==
    \E t \in Threads, s \in Savers :
        /\ op[t] = "~FlagSaver" /\ pc[t] = "done" /\ rewound[t]
        /\ s # saver[t] /\ impl_[s] = "impl"
        /\ \E n \in DOMAIN atCapture[s] :
              /\ atCapture[s][n].flag \in CapturedLive(saver[t])
              /\ ~IsRetired(atCapture[s][n].flag)
              /\ atCapture[s][n].value # objs[atCapture[s][n].flag].cur

====
